---------------------------- MODULE Spec2Model ----------------------------
(***************************************************************************)
(* A model of Main.py: the proof-of-work search (mine / mine_nonce), the   *)
(* in-memory chain with its reward halving, the retarget recommendation,   *)
(* the command-line start-up mining and the /mine request handler of the   *)
(* threaded web server.                                                    *)
(*                                                                         *)
(* Scaling.  The source hashes to 64 hex digits (256 bits) and searches    *)
(* 2^32 nonces; the model keeps the same arithmetic on HexDigits hex       *)
(* digits and 2^MaxNonceBits nonces.  HALVING_INTERVAL is 210000 in the    *)
(* source and small here.  SHA-256 is modelled by a fixed deterministic    *)
(* mixing function of the serialised text.  The float REWARD is kept as    *)
(* mantissa and exponent.                                                  *)
(*                                                                         *)
(* Spec is the whole process: the start-up mining of the main thread, then *)
(* overlapping /mine requests on the handler threads.  SpecRetarget serves *)
(* /mine requests one after the other, long enough to reach a retarget     *)
(* batch boundary.                                                         *)
(***************************************************************************)
EXTENDS Integers, Sequences, FiniteSets, TLC

(***************************************************************************)
(* Bounds of the model.                                                    *)
(***************************************************************************)
\* hex digits of a digest (64 in the source: sha256(...).hexdigest())
HexDigits == 2
\* max_nonce = 2 ** MaxNonceBits (2 ** 32 in the source)
MaxNonceBits == 3
\* blocks between reward halvings (210000 in the source)
HALVING_INTERVAL == 2
\* /mine requests served in one run of the process
MaxRequests == 2
\* longest chain handed to retarget_difficulty in SpecRetarget
MaxRetargetLen == 12

(***************************************************************************)
(* Input domains.                                                          *)
(***************************************************************************)
\* request handler threads of the web server (app.run is threaded)
Threads == {1, 2}
\* the main thread runs the command-line start-up
Main == 0
Procs == {Main} \cup Threads
\* num_workers as given by the caller; None resolves to cpu_count() >= 1
WorkerCounts == {0, 1, 3}
MaxWorkers == CHOOSE m \in WorkerCounts : \A n \in WorkerCounts : n <= m
\* transaction payloads (opaque strings in the source), by code
Transactions == {1}
\* wall-clock durations measured by time.time() differences: of pool.map
\* (elapsed_time in mine) and of the whole call of mine (total_time)
ElapsedTimes == {1, 2}
TotalTimes == {2}
\* difficulty names a request may carry: the lowest and the highest tier, and
\* "Extreme", which is not a key of DIFFICULTIES (the command line draws from
\* all three tiers)
DifficultyNames == {"Easy", "Hard", "Extreme"}

(***************************************************************************)
(* Program constants.                                                      *)
(***************************************************************************)
DIFFICULTIES == [Easy |-> 2, Medium |-> 3, Hard |-> 4]
InitialReward == 50
TARGET_TIME == 10 * 60
RetargetBatch == 10
\* the default --block_number of the command line
DefaultBlockNumber == 5

\* Python's None, and the marker of a pool task that has not returned yet
None == [none |-> TRUE]
Pending == [pending |-> TRUE]

HashBits == 4 * HexDigits
HashModulus == 2 ^ HashBits
max_nonce == 2 ^ MaxNonceBits

\* '0' * 64
GenesisHash == [i \in 1..HexDigits |-> 0]
\* the default --previous_hash, "0000000xa036...": 64 characters, one of them
\* ('x') no hex digit, so it equals no digest; the non-digit is coded 16
DefaultPreviousHash == [i \in 1..HexDigits |-> IF i = HexDigits THEN 16 ELSE 0]

\* REWARD is a Python number that REWARD /= 2 turns into a float: it is kept
\* as a binary floating-point value, mantissa * 2 ^ exponent with an odd
\* mantissa, on which halving is exact
RECURSIVE ToFloat(_)
ToFloat(n) ==
  IF n = 0 \/ n % 2 = 1 THEN [mantissa |-> n, exponent |-> 0]
  ELSE [ToFloat(n \div 2) EXCEPT !.exponent = @ + 1]

\* x / 2
HalfOf(x) == [x EXCEPT !.exponent = @ - 1]

(***************************************************************************)
(* Hasher / target evaluator.                                              *)
(***************************************************************************)
\* json.dumps(data, sort_keys=True) writes the keys in this order
KeyOrder ==
  <<"block_number", "hash", "mining_time", "nonce", "previous_hash", "reward",
    "transactions">>

\* the characters one key/value pair contributes: the key, then the value
\* (hash strings digit by digit, numbers as one symbol)
EncodeItem(i, data) ==
  LET k == KeyOrder[i] IN
    IF k \notin DOMAIN data THEN <<>>
    ELSE IF k \in {"hash", "previous_hash"} THEN <<i>> \o data[k]
    ELSE <<i, data[k]>>

RECURSIVE EncodeFrom(_, _)
EncodeFrom(i, data) ==
  IF i > Len(KeyOrder) THEN <<>>
  ELSE EncodeItem(i, data) \o EncodeFrom(i + 1, data)

to_string(data) == EncodeFrom(1, data)

\* the digest as a number: a deterministic mix of every character of the text
RECURSIVE Mix(_, _)
Mix(h, text) ==
  IF text = <<>> THEN h
  ELSE LET c == Head(text)
           x == h + c + 1
       IN Mix((x * x * 7 + h * 27 + c + 10) % HashModulus, Tail(text))

\* hexdigest(): most significant digit first
ToHex(n) == [i \in 1..HexDigits |-> (n \div (16 ^ (HexDigits - i))) % 16]

SHA256(text) == ToHex(Mix(0, text))

\* int(new_hash, 16)
RECURSIVE IntOfHex(_)
IntOfHex(hex) ==
  IF hex = <<>> THEN 0
  ELSE 16 * IntOfHex(SubSeq(hex, 1, Len(hex) - 1)) + hex[Len(hex)]

\* a target that grows with the bit count
calculate_target_rising(difficulty) == 2 ^ difficulty

\* calculate_target, lines 46-50: 2 ** (256 - difficulty), on HashBits bits
calculate_target(difficulty) == 2 ^ (HashBits - difficulty)

\* block_data[key] = value on a dict
DictSet(d, k, v) == [x \in DOMAIN d \cup {k} |-> IF x = k THEN v ELSE d[x]]

(***************************************************************************)
(* Partitioned nonce search.                                               *)
(***************************************************************************)
\* the loop of mine_nonce from `nonce` on
RECURSIVE Scan(_, _, _, _)
Scan(block_data, nonce, nonce_end, target) ==
  IF nonce >= nonce_end THEN None
  ELSE LET candidate == DictSet(block_data, "nonce", nonce)
           new_hash == SHA256(to_string(candidate))
       IN IF IntOfHex(new_hash) < target
          THEN DictSet(candidate, "hash", new_hash)
          ELSE Scan(candidate, nonce + 1, nonce_end, target)

\* a scan that compares against twice the target
mine_nonce_loose(args) ==
  Scan(args.block_data, args.nonce_start, args.nonce_end, 2 * args.target)

mine_nonce(args) ==
  Scan(args.block_data, args.nonce_start, args.nonce_end, args.target)

\* nonce_step = max_nonce // num_workers
nonce_step(num_workers) == max_nonce \div num_workers

\* the argument list mine() builds for pool.map
MineArgs(block_data, target, num_workers) ==
  [w \in 1..num_workers |->
     [block_data |-> block_data,
      nonce_start |-> (w - 1) * nonce_step(num_workers),
      nonce_end |-> w * nonce_step(num_workers),
      target |-> target,
      queue |-> w - 1]]

\* for result in results: if result: return result;  return None
RECURSIVE SelectResult(_)
SelectResult(results) ==
  IF results = <<>> THEN None
  ELSE IF Head(results) # None THEN Head(results)
  ELSE SelectResult(Tail(results))

(***************************************************************************)
(* Difficulty retarget controller.                                         *)
(***************************************************************************)
RECURSIVE SumMiningTime(_)
SumMiningTime(blocks) ==
  IF blocks = <<>> THEN 0
  ELSE Head(blocks).mining_time + SumMiningTime(Tail(blocks))

\* CHAIN[-10:]
LastBatch(chain) ==
  SubSeq(chain, IF Len(chain) > RetargetBatch THEN Len(chain) - RetargetBatch + 1 ELSE 1,
         Len(chain))

\* a retarget whose first comparison is <= instead of <
retarget_difficulty_le(chain) ==
  IF Len(chain) > 1 /\ Len(chain) % RetargetBatch = 0
  THEN LET total == SumMiningTime(LastBatch(chain)) IN
         IF total <= TARGET_TIME * RetargetBatch THEN 1
         ELSE IF total > TARGET_TIME * RetargetBatch THEN -1
         ELSE 0
  ELSE 0

\* avg_time = sum(...) / 10 compared with TARGET_TIME; the comparison is made
\* on the sums (avg < T  iff  sum < 10 * T)
retarget_difficulty(chain) ==
  IF Len(chain) > 1 /\ Len(chain) % RetargetBatch = 0
  THEN LET total == SumMiningTime(LastBatch(chain)) IN
         IF total < TARGET_TIME * RetargetBatch THEN 1
         ELSE IF total > TARGET_TIME * RetargetBatch THEN -1
         ELSE 0
  ELSE 0

(***************************************************************************)
(* State.                                                                  *)
(***************************************************************************)
VARIABLES
  CHAIN,                 \* the module-level list of appended blocks
  REWARD,                \* the module-level reward
  mining_info,           \* the status record served by /status
  pc,                    \* where each thread stands
  block_data,            \* the template each thread built (None when idle)
  pool_args,             \* args of the running mine() call of each thread
  results,               \* what each pool task has returned so far
  mined_block,           \* the value mine() returned to each thread
  difficulty_adjustment, \* the last value retarget_difficulty() returned
  response,              \* the last answer of each request thread
  served,                \* /mine requests received so far
  scan                   \* the loop state of each pool task followed step by step

vars ==
  <<CHAIN, REWARD, mining_info, pc, block_data, pool_args, results, mined_block,
    difficulty_adjustment, response, served, scan>>

\* the templates the command line can submit: the argparse defaults, or a
\* first block given with --block_number 1 and a previous_hash of 64 zeros
CliTemplates ==
  {[block_number |-> DefaultBlockNumber, previous_hash |-> DefaultPreviousHash],
   [block_number |-> 1, previous_hash |-> GenesisHash]}

Init ==
  /\ CHAIN = <<>>
  /\ REWARD = ToFloat(InitialReward)
  /\ mining_info =
       [status |-> "idle", current_block |-> 0, difficulty |-> "Medium",
        hash_rate |-> 0, mining_time |-> 0]
  /\ pc = [p \in Procs |-> IF p = Main THEN "init" ELSE "idle"]
  /\ block_data = [p \in Procs |-> None]
  /\ pool_args = [p \in Procs |-> <<>>]
  /\ results = [p \in Procs |-> <<>>]
  /\ mined_block = [p \in Procs |-> None]
  /\ difficulty_adjustment = [p \in Procs |-> 0]
  /\ response = [p \in Procs |-> "none"]
  /\ served = 0
  /\ scan = [p \in Procs |-> <<>>]

\* every task pool.map was given has returned
AllReturned(p) == \A w \in DOMAIN results[p] : results[p][w] # Pending

\* mine(), lines 75-84: the target, the sub-ranges, the pool and its tasks
StartMine(p, template, target_difficulty, num_workers) ==
  /\ block_data' = [block_data EXCEPT ![p] = template]
  /\ pool_args' =
       [pool_args EXCEPT
          ![p] = MineArgs(template, calculate_target(target_difficulty), num_workers)]
  /\ results' = [results EXCEPT ![p] = [w \in 1..num_workers |-> Pending]]
  /\ pc' = [pc EXCEPT ![p] = "map"]

\* a handler that adds its last recommendation to the requested bits
TargetDifficultyAdjusted(t, difficulty) ==
  DIFFICULTIES[difficulty] + difficulty_adjustment[t]

\* line 188: target_difficulty = DIFFICULTIES[difficulty], whatever
\* retarget_difficulty returned to an earlier request
TargetDifficulty(t, difficulty) == DIFFICULTIES[difficulty]

\* the thread's locals once its call is over
ClearLocals(p) ==
  /\ block_data' = [block_data EXCEPT ![p] = None]
  /\ pool_args' = [pool_args EXCEPT ![p] = <<>>]
  /\ results' = [results EXCEPT ![p] = <<>>]
  /\ mined_block' = [mined_block EXCEPT ![p] = None]

(***************************************************************************)
(* mine(): one pool task, and the return of pool.map.                      *)
(***************************************************************************)
\* what task w of thread p returns
TaskResult(p, w) == mine_nonce(pool_args[p][w])

\* one pool process runs mine_nonce on its own copy of the arguments
Worker(p, w) ==
  /\ pc[p] = "map"
  /\ w \in DOMAIN results[p]
  /\ results[p][w] = Pending
  /\ results' = [results EXCEPT ![p][w] = TaskResult(p, w)]
  /\ UNCHANGED <<scan, CHAIN, REWARD, mining_info, pc, block_data, pool_args, mined_block,
                 difficulty_adjustment, response, served>>

\* a map that returns as soon as one task is done
MapReturnsEarly(p) == \E w \in DOMAIN results[p] : results[p][w] # Pending

\* pool.map returns the list of all results: it blocks until every task is done
MapReturns(p) == AllReturned(p)

\* mine(), lines 85-100: pool.map returns, the hash rate is written, the first
\* result in worker order is returned
MineJoin(p, elapsed_time) ==
  /\ pc[p] = "map"
  /\ MapReturns(p)
  /\ LET result == SelectResult(results[p]) IN
       /\ mining_info' =
            [mining_info EXCEPT
               !.hash_rate = max_nonce \div elapsed_time,
               !.mining_time = IF result # None THEN elapsed_time ELSE @]
       /\ mined_block' = [mined_block EXCEPT ![p] = result]
  /\ pc' = [pc EXCEPT ![p] = "returned"]
  /\ UNCHANGED <<scan, CHAIN, REWARD, block_data, pool_args, results,
                 difficulty_adjustment, response, served>>

(***************************************************************************)
(* The command line, lines 227-259.                                        *)
(***************************************************************************)
\* lines 228-244 and mine() up to pool.map; num_workers = 0 raises
\* ZeroDivisionError at line 80 and the process ends before app.run
CliStart(template, transactions, difficulty, num_workers) ==
  /\ pc[Main] = "init"
  /\ IF num_workers = 0
     THEN /\ pc' = [pc EXCEPT ![Main] = "crashed"]
          /\ UNCHANGED <<block_data, pool_args, results>>
     ELSE StartMine(Main,
                    [block_number |-> template.block_number,
                     transactions |-> transactions,
                     previous_hash |-> template.previous_hash],
                    DIFFICULTIES[difficulty], num_workers)
  /\ UNCHANGED <<scan, CHAIN, REWARD, mining_info, mined_block, difficulty_adjustment,
                 response, served>>

\* an insertion at the head of the list
add_block_to_chain_front(chain, block) == <<block>> \o chain

\* add_block_to_chain
add_block_to_chain(chain, block) == Append(chain, block)

\* lines 246-259: the mined block is stamped and appended, then app.run
CliFinish(total_time) ==
  /\ pc[Main] = "returned"
  /\ IF mined_block[Main] # None
     THEN CHAIN' =
            add_block_to_chain(CHAIN,
              DictSet(DictSet(mined_block[Main], "mining_time", total_time),
                      "reward", REWARD))
     ELSE CHAIN' = CHAIN
  /\ pc' = [pc EXCEPT ![Main] = "serving"]
  /\ ClearLocals(Main)
  /\ UNCHANGED <<scan, REWARD, mining_info, difficulty_adjustment, response, served>>

(***************************************************************************)
(* The /mine handler, start_mining.  The handler threads interleave where  *)
(* the code blocks or writes a log line or a file.                         *)
(***************************************************************************)
\* lines 175-186: the template of the next block
NextTemplate(chain, transactions) ==
  [block_number |-> Len(chain) + 1,
   transactions |-> transactions,
   previous_hash |-> IF chain # <<>> THEN chain[Len(chain)].hash ELSE GenesisHash]

\* lines 175-196 and mine() up to pool.map.  An unknown difficulty raises
\* KeyError at line 188; num_workers = 0 raises ZeroDivisionError at line 80,
\* after the status was set to "mining".
ReqStart(t, transactions, difficulty, num_workers) ==
  /\ pc[Main] = "serving"
  /\ pc[t] = "idle"
  /\ served < MaxRequests
  /\ served' = served + 1
  /\ IF difficulty \notin DOMAIN DIFFICULTIES
     THEN /\ response' = [response EXCEPT ![t] = "exception"]
          /\ UNCHANGED <<mining_info, pc, block_data, pool_args, results>>
     ELSE /\ mining_info' =
               [mining_info EXCEPT
                  !.status = "mining",
                  !.current_block = Len(CHAIN) + 1,
                  !.difficulty = difficulty]
          /\ IF num_workers = 0
             THEN /\ response' = [response EXCEPT ![t] = "exception"]
                  /\ UNCHANGED <<pc, block_data, pool_args, results>>
             ELSE /\ StartMine(t, NextTemplate(CHAIN, transactions),
                               TargetDifficulty(t, difficulty), num_workers)
                  /\ response' = [response EXCEPT ![t] = "none"]
  /\ UNCHANGED <<scan, CHAIN, REWARD, mined_block, difficulty_adjustment>>

\* lines 198-204: the mined block is stamped with the time and the reward read
\* now, and saved
ReqStamp(t, total_time) ==
  /\ t \in Threads
  /\ pc[t] = "returned"
  /\ mined_block[t] # None
  /\ mined_block' =
       [mined_block EXCEPT
          ![t] = DictSet(DictSet(@, "mining_time", total_time), "reward", REWARD)]
  /\ pc' = [pc EXCEPT ![t] = "stamped"]
  /\ UNCHANGED <<scan, CHAIN, REWARD, mining_info, block_data, pool_args, results,
                 difficulty_adjustment, response, served>>

\* a failure branch that also runs the halving test of line 208
ReqFailHalving(t) ==
  /\ t \in Threads
  /\ pc[t] = "returned"
  /\ mined_block[t] = None
  /\ REWARD' = IF Len(CHAIN) % HALVING_INTERVAL = 0 THEN HalfOf(REWARD) ELSE REWARD
  /\ mining_info' = [mining_info EXCEPT !.status = "idle"]
  /\ response' = [response EXCEPT ![t] = "500"]
  /\ pc' = [pc EXCEPT ![t] = "idle"]
  /\ ClearLocals(t)
  /\ UNCHANGED <<scan, CHAIN, difficulty_adjustment, served>>

\* lines 223-225: mine() returned None
ReqFail(t) ==
  /\ t \in Threads
  /\ pc[t] = "returned"
  /\ mined_block[t] = None
  /\ mining_info' = [mining_info EXCEPT !.status = "idle"]
  /\ response' = [response EXCEPT ![t] = "500"]
  /\ pc' = [pc EXCEPT ![t] = "idle"]
  /\ ClearLocals(t)
  /\ UNCHANGED <<scan, CHAIN, REWARD, difficulty_adjustment, served>>

\* line 205
ReqAppend(t) ==
  /\ pc[t] = "stamped"
  /\ CHAIN' = add_block_to_chain(CHAIN, mined_block[t])
  /\ pc' = [pc EXCEPT ![t] = "appended"]
  /\ UNCHANGED <<scan, REWARD, mining_info, block_data, pool_args, results, mined_block,
                 difficulty_adjustment, response, served>>

\* lines 208-209: the reward after the halving test on the chain as it is now
HalvedReward(chain, reward) ==
  IF Len(chain) % HALVING_INTERVAL = 0 THEN HalfOf(reward) ELSE reward

\* lines 208-210
ReqHalve(t) ==
  /\ pc[t] = "appended"
  /\ REWARD' = HalvedReward(CHAIN, REWARD)
  /\ pc' = [pc EXCEPT ![t] = "halved"]
  /\ UNCHANGED <<scan, CHAIN, mining_info, block_data, pool_args, results, mined_block,
                 difficulty_adjustment, response, served>>

\* lines 213-222: the recommendation is computed and logged, the status is
\* reset and the block is the response
ReqFinish(t) ==
  /\ pc[t] = "halved"
  /\ difficulty_adjustment' =
       [difficulty_adjustment EXCEPT ![t] = retarget_difficulty(CHAIN)]
  /\ mining_info' = [mining_info EXCEPT !.status = "idle"]
  /\ response' = [response EXCEPT ![t] = "200"]
  /\ pc' = [pc EXCEPT ![t] = "idle"]
  /\ ClearLocals(t)
  /\ UNCHANGED <<scan, CHAIN, REWARD, served>>

Next ==
  \/ \E template \in CliTemplates, transactions \in Transactions,
        difficulty \in DOMAIN DIFFICULTIES, num_workers \in WorkerCounts :
       CliStart(template, transactions, difficulty, num_workers)
  \/ \E total_time \in TotalTimes : CliFinish(total_time)
  \/ \E p \in Procs, w \in 1..MaxWorkers : Worker(p, w)
  \/ \E p \in Procs, elapsed_time \in ElapsedTimes : MineJoin(p, elapsed_time)
  \/ \E t \in Threads, transactions \in Transactions,
        difficulty \in DifficultyNames, num_workers \in WorkerCounts :
       ReqStart(t, transactions, difficulty, num_workers)
  \/ \E t \in Threads, total_time \in TotalTimes : ReqStamp(t, total_time)
  \/ \E t \in Threads : ReqFail(t)
  \/ \E t \in Threads : ReqAppend(t)
  \/ \E t \in Threads : ReqHalve(t)
  \/ \E t \in Threads : ReqFinish(t)

Spec == Init /\ [][Next]_vars

(***************************************************************************)
(* One /mine request served with no other request in flight: start_mining  *)
(* from its first line to its response, all pool tasks included.           *)
(***************************************************************************)
\* the value mine() returns: every task's result, the first one that is a block
mine(template, target_difficulty, num_workers) ==
  SelectResult(
    [w \in 1..num_workers |->
       mine_nonce(MineArgs(template, calculate_target(target_difficulty),
                           num_workers)[w])])

SeqRequest(t, transactions, difficulty, num_workers, elapsed_time, total_time) ==
  /\ pc[Main] = "serving"
  /\ \A u \in Threads : pc[u] = "idle"
  /\ Len(CHAIN) < MaxRetargetLen
  /\ LET found == mine(NextTemplate(CHAIN, transactions),
                       TargetDifficulty(t, difficulty), num_workers)
         block == DictSet(DictSet(found, "mining_time", total_time), "reward", REWARD)
     IN /\ mining_info' =
             [status |-> "idle",
              current_block |-> Len(CHAIN) + 1,
              difficulty |-> difficulty,
              hash_rate |-> max_nonce \div elapsed_time,
              mining_time |-> IF found # None THEN elapsed_time
                              ELSE mining_info.mining_time]
        /\ IF found # None
           THEN /\ CHAIN' = add_block_to_chain(CHAIN, block)
                /\ REWARD' = HalvedReward(CHAIN', REWARD)
                /\ difficulty_adjustment' =
                     [difficulty_adjustment EXCEPT ![t] = retarget_difficulty(CHAIN')]
                /\ response' = [response EXCEPT ![t] = "200"]
           ELSE /\ response' = [response EXCEPT ![t] = "500"]
                /\ UNCHANGED <<CHAIN, REWARD, difficulty_adjustment>>
  /\ served' = served
  /\ UNCHANGED <<scan, pc, block_data, pool_args, results, mined_block>>

\* mining times around TARGET_TIME, as the handler may measure them
RetargetTimes == {TARGET_TIME - 10, TARGET_TIME + 10}

\* the server after a start-up mining that found no block
InitRetarget ==
  /\ CHAIN = <<>>
  /\ REWARD = ToFloat(InitialReward)
  /\ mining_info =
       [status |-> "idle", current_block |-> 0, difficulty |-> "Medium",
        hash_rate |-> max_nonce, mining_time |-> 0]
  /\ pc = [p \in Procs |-> IF p = Main THEN "serving" ELSE "idle"]
  /\ block_data = [p \in Procs |-> None]
  /\ pool_args = [p \in Procs |-> <<>>]
  /\ results = [p \in Procs |-> <<>>]
  /\ mined_block = [p \in Procs |-> None]
  /\ difficulty_adjustment = [p \in Procs |-> 0]
  /\ response = [p \in Procs |-> "none"]
  /\ served = 0
  /\ scan = [p \in Procs |-> <<>>]

NextRetarget ==
  \E total_time \in RetargetTimes : SeqRequest(1, 1, "Easy", 1, 1, total_time)

SpecRetarget == InitRetarget /\ [][NextRetarget]_vars

(***************************************************************************)
(* mine() called on its own, with the loop of mine_nonce followed one      *)
(* iteration at a time.  mine() takes the difficulty as a number of bits   *)
(* and tests nothing about it.                                             *)
(***************************************************************************)
\* the bit counts mine() is called with: those of DIFFICULTIES, zero and a
\* negative one
MineBits == {DIFFICULTIES[d] : d \in DOMAIN DIFFICULTIES} \cup {0, 0 - 1}

\* the fields of a template, lines 178-186
TemplateKeys == {"block_number", "transactions", "previous_hash"}

\* what a pool task holds when it starts: its pickled copy of the template
\* and the first nonce of range(nonce_start, nonce_end)
ScanStart(arg) ==
  [block_data |-> arg.block_data, nonce |-> arg.nonce_start, evaluated |-> <<>>]

\* an iteration that also takes nonce_end
ScanIterationInclusive(local, arg) ==
  IF local.nonce > arg.nonce_end
  THEN [local |-> local, result |-> None]
  ELSE LET candidate == DictSet(local.block_data, "nonce", local.nonce)
           new_hash == SHA256(to_string(candidate))
           evaluated == Append(local.evaluated, local.nonce)
       IN  IF IntOfHex(new_hash) < arg.target
           THEN [local |-> [block_data |-> DictSet(candidate, "hash", new_hash),
                            nonce |-> local.nonce,
                            evaluated |-> evaluated],
                 result |-> DictSet(candidate, "hash", new_hash)]
           ELSE [local |-> [block_data |-> candidate,
                            nonce |-> local.nonce + 1,
                            evaluated |-> evaluated],
                 result |-> Pending]

\* mine_nonce, lines 54-61: one iteration of the loop, or its end.  The nonce
\* is written into the task's block_data, the digest is taken, and the task
\* returns its block_data as soon as the digest is below the target.
ScanIteration(local, arg) ==
  IF local.nonce >= arg.nonce_end
  THEN [local |-> local, result |-> None]
  ELSE LET candidate == DictSet(local.block_data, "nonce", local.nonce)
           new_hash == SHA256(to_string(candidate))
           evaluated == Append(local.evaluated, local.nonce)
       IN  IF IntOfHex(new_hash) < arg.target
           THEN [local |-> [block_data |-> DictSet(candidate, "hash", new_hash),
                            nonce |-> local.nonce,
                            evaluated |-> evaluated],
                 result |-> DictSet(candidate, "hash", new_hash)]
           ELSE [local |-> [block_data |-> candidate,
                            nonce |-> local.nonce + 1,
                            evaluated |-> evaluated],
                 result |-> Pending]

\* workers that write into the dict of the caller
CallerViewShared(template, worker_copy) == worker_copy

\* line 83 and the pool: each task gets block_data.copy(), pickled into its
\* own process, so the dict of the caller is not the one a task writes into
CallerView(template, worker_copy) == template

\* one iteration of task w of the call of p
ScanStep(p, w) ==
  /\ pc[p] = "map"
  /\ w \in DOMAIN results[p]
  /\ results[p][w] = Pending
  /\ LET step == ScanIteration(scan[p][w], pool_args[p][w]) IN
       /\ scan' = [scan EXCEPT ![p][w] = step.local]
       /\ results' = [results EXCEPT ![p][w] = step.result]
       /\ block_data' =
            [block_data EXCEPT ![p] = CallerView(@, step.local.block_data)]
  /\ UNCHANGED <<CHAIN, REWARD, mining_info, pc, pool_args, mined_block,
                 difficulty_adjustment, response, served>>

\* mine(template, target_difficulty, num_workers) is called, lines 75-84
MineCall(template, transactions, target_difficulty, num_workers) ==
  /\ pc[Main] = "init"
  /\ num_workers >= 1
  /\ LET submitted == [block_number |-> template.block_number,
                       transactions |-> transactions,
                       previous_hash |-> template.previous_hash]
     IN  /\ StartMine(Main, submitted, target_difficulty, num_workers)
         /\ scan' =
              [scan EXCEPT
                 ![Main] =
                   [w \in 1..num_workers |->
                      ScanStart(MineArgs(submitted,
                                         calculate_target(target_difficulty),
                                         num_workers)[w])]]
  /\ UNCHANGED <<CHAIN, REWARD, mining_info, mined_block, difficulty_adjustment,
                 response, served>>

\* the caller has the value mine() returned and may call again
MineReturn ==
  /\ pc[Main] = "returned"
  /\ pc' = [pc EXCEPT ![Main] = "init"]
  /\ ClearLocals(Main)
  /\ scan' = [scan EXCEPT ![Main] = <<>>]
  /\ UNCHANGED <<CHAIN, REWARD, mining_info, difficulty_adjustment, response,
                 served>>

NextMine ==
  \/ \E template \in CliTemplates, transactions \in Transactions,
        target_difficulty \in MineBits, num_workers \in WorkerCounts :
       MineCall(template, transactions, target_difficulty, num_workers)
  \/ \E w \in 1..MaxWorkers : ScanStep(Main, w)
  \/ \E elapsed_time \in ElapsedTimes : MineJoin(Main, elapsed_time)
  \/ MineReturn

SpecMine == Init /\ [][NextMine]_vars

(***************************************************************************)
(* Properties.                                                             *)
(***************************************************************************)
\* the nonces of [0, max_nonce) whose digest with the template is below target
Accepted(template, target) ==
  {n \in 0..(max_nonce - 1) :
     IntOfHex(SHA256(to_string(DictSet(template, "nonce", n)))) < target}

\* the target of the mine() call thread p is in
TargetOf(p) == pool_args[p][1].target

\* x halved k times
RECURSIVE HalvedTimes(_, _)
HalvedTimes(x, k) == IF k = 0 THEN x ELSE HalvedTimes(HalfOf(x), k - 1)

\* C1: for every worker count >= 1 the sub-ranges handed to the workers are
\* contiguous, disjoint and cover exactly [0, max_nonce), the last one ending
\* at max_nonce.
C1_PartitionExhaustive ==
  \A p \in Procs :
    pool_args[p] # <<>> =>
      LET a == pool_args[p]
          n == Len(a)
      IN /\ a[1].nonce_start = 0
         /\ a[n].nonce_end = max_nonce
         /\ \A w \in 1..(n - 1) : a[w].nonce_end = a[w + 1].nonce_start
         /\ \A w \in 1..n : a[w].nonce_start <= a[w].nonce_end
         /\ UNION {a[w].nonce_start..(a[w].nonce_end - 1) : w \in 1..n}
              = 0..(max_nonce - 1)

\* C2: mine() returns None only when no nonce of [0, max_nonce) is accepted.
C2_NotFoundOnlyWhenNoSolution ==
  \A p \in Procs :
    (pc[p] = "returned" /\ mined_block[p] = None) =>
      Accepted(block_data[p], TargetOf(p)) = {}

\* the block is the template with a nonce of the universe and the digest of
\* exactly those fields, and the digest is below the target
PassedCheck(block, template, target) ==
  /\ block.nonce \in 0..(max_nonce - 1)
  /\ \A k \in DOMAIN template : block[k] = template[k]
  /\ block.hash = SHA256(to_string(DictSet(template, "nonce", block.nonce)))
  /\ IntOfHex(block.hash) < target

\* the fields of a block that were hashed
TemplateOf(block) ==
  [block_number |-> block.block_number,
   transactions |-> block.transactions,
   previous_hash |-> block.previous_hash]

\* C3: every block mine() returns passed the target check for its template and
\* its target, and every block of the chain carries the digest of its own
\* template and nonce, below the target of the lowest supported difficulty (so
\* no block with a hash >= target is returned or appended).
C3_OnlyCheckedBlocks ==
  /\ \A p \in Procs :
       mined_block[p] # None => PassedCheck(mined_block[p], block_data[p], TargetOf(p))
  /\ \A k \in 1..Len(CHAIN) :
       PassedCheck(CHAIN[k], TemplateOf(CHAIN[k]), calculate_target(DIFFICULTIES.Easy))

\* C3 witness: a block is in the chain and a request holds a block mine()
\* returned.
C3_Witness ==
  /\ Len(CHAIN) >= 1
  /\ \E t \in Threads : pc[t] = "returned" /\ mined_block[t] # None

\* C4: once every request has answered, the reward is the initial reward
\* halved floor(len(CHAIN) / HALVING_INTERVAL) times.
C4_RewardSchedule ==
  (\A t \in Threads : pc[t] = "idle") =>
    REWARD = HalvedTimes(ToFloat(InitialReward), Len(CHAIN) \div HALVING_INTERVAL)

\* the hash a new block has to name: the tail's, or the genesis sentinel
TailHash(chain) == IF chain = <<>> THEN GenesisHash ELSE chain[Len(chain)].hash

\* C5: the chain changes only by the append of one block whose previous_hash is
\* the hash of the tail (the genesis sentinel on an empty chain); a block with
\* another previous_hash leaves the chain unchanged.
C5_LinkageChecked ==
  [][CHAIN' # CHAIN =>
       /\ Len(CHAIN') = Len(CHAIN) + 1
       /\ SubSeq(CHAIN', 1, Len(CHAIN)) = CHAIN
       /\ CHAIN'[Len(CHAIN')].previous_hash = TailHash(CHAIN)]_vars

\* C6: the chain is hash-linked: the first block names the genesis sentinel,
\* every later block the hash of the block before it.
C6_ChainLinked ==
  \A k \in 1..Len(CHAIN) :
    CHAIN[k].previous_hash = IF k = 1 THEN GenesisHash ELSE CHAIN[k - 1].hash

\* C7: block numbers grow by exactly one from each block to the next.
C7_BlockNumbersConsecutive ==
  \A k \in 1..(Len(CHAIN) - 1) :
    CHAIN[k + 1].block_number = CHAIN[k].block_number + 1

\* C8: the block at position k carries the initial reward halved
\* floor((k - 1) / HALVING_INTERVAL) times.
C8_RewardOfBlock ==
  \A k \in 1..Len(CHAIN) :
    CHAIN[k].reward =
      HalvedTimes(ToFloat(InitialReward), (k - 1) \div HALVING_INTERVAL)

\* the sum of mining_time over the positions `from`..`to` of the chain
RECURSIVE TimeOver(_, _, _)
TimeOver(chain, from, to) ==
  IF from > to THEN 0 ELSE chain[to].mining_time + TimeOver(chain, from, to - 1)

\* the recommendation the retarget rule prescribes for a chain
Recommended(chain) ==
  LET n == Len(chain) IN
    IF n # 0 /\ n % RetargetBatch = 0
    THEN LET total == TimeOver(chain, n - RetargetBatch + 1, n) IN
           IF total < RetargetBatch * TARGET_TIME THEN 1
           ELSE IF total > RetargetBatch * TARGET_TIME THEN -1
           ELSE 0
    ELSE 0

\* C9: retarget_difficulty() is non-zero only on a non-empty chain whose length
\* is a multiple of 10; there it is +1 when the mean mining_time of the 10 most
\* recent blocks is below TARGET_TIME, -1 when above, 0 when equal; at every
\* other length it is 0.  The handler's recommendation is that value.
C9_Retarget ==
  /\ retarget_difficulty(CHAIN) = Recommended(CHAIN)
  /\ difficulty_adjustment[1] = Recommended(CHAIN)
  /\ (Len(CHAIN) = 0 \/ Len(CHAIN) % RetargetBatch # 0) => difficulty_adjustment[1] = 0

\* C9 witness: at a batch boundary the handler was told to decrease.
C9_Witness ==
  /\ Len(CHAIN) = RetargetBatch
  /\ response[1] = "200"
  /\ difficulty_adjustment[1] = -1

\* what a complete scan of the task's own sub-range yields: None when the
\* sub-range holds no accepted nonce, else the block of its smallest one
FullScanResult(arg, result) ==
  LET hits == {n \in arg.nonce_start..(arg.nonce_end - 1) :
                 IntOfHex(SHA256(to_string(DictSet(arg.block_data, "nonce", n))))
                   < arg.target}
  IN IF hits = {} THEN result = None
     ELSE /\ result # None
          /\ result.nonce \in hits
          /\ \A n \in hits : result.nonce <= n

\* C10: mine() leaves pool.map, writes the hash rate and selects its result only
\* in a step taken when every task has returned; each task's result is that of
\* the complete scan of its own sub-range whatever the other tasks found; the
\* hash rate is not written in any other step.
C10_SingleBarrier ==
  [][/\ \A p \in Procs : \A w \in DOMAIN results[p] :
          (results[p][w] = Pending /\ w \in DOMAIN results'[p]
             /\ results'[p][w] # Pending) =>
            FullScanResult(pool_args[p][w], results'[p][w])
     /\ \A p \in Procs :
          (pc[p] = "map" /\ pc'[p] # "map") =>
            /\ \A w \in DOMAIN results[p] : results[p][w] # Pending
            /\ results'[p] = results[p]
            /\ pc'[p] = "returned"
            /\ mined_block'[p] = SelectResult(results[p])
     /\ mining_info'.hash_rate # mining_info.hash_rate =>
          \E p \in Procs :
            /\ pc[p] = "map" /\ pc'[p] = "returned"
            /\ \A w \in DOMAIN results[p] : results[p][w] # Pending]_vars

\* C10 witness: mine() has returned from a three-worker search in which the
\* first worker found a nonce and the last one exhausted its sub-range.
C10_Witness ==
  \E t \in Threads :
    /\ pc[t] = "returned"
    /\ Len(results[t]) = 3
    /\ results[t][1] # None
    /\ results[t][3] = None
    /\ mined_block[t] = results[t][1]

\* C11: a mining request whose difficulty is invalid (zero or negative bits, a
\* target of zero) is rejected before any worker is launched: no pool task
\* ever exists for a call whose target is not that of at least one bit.
C11_InvalidDifficultyRejected ==
  \A p \in Procs :
    pool_args[p] # <<>> =>
      /\ TargetOf(p) >= 1
      /\ 2 * TargetOf(p) <= HashModulus

\* C12: the ledger is append-only and write-once: in every step the previous
\* chain is an unchanged prefix of the new one, and the dict a request has
\* appended (the list holds that very object) is not written afterwards.
C12_AppendOnly ==
  [][/\ Len(CHAIN') >= Len(CHAIN)
     /\ SubSeq(CHAIN', 1, Len(CHAIN)) = CHAIN
     /\ \A t \in Threads :
          pc[t] \in {"appended", "halved"} =>
            mined_block'[t] \in {mined_block[t], None}]_vars

\* a request has appended its block behind two others
C12_Witness ==
  \E t \in Threads : pc[t] = "appended" /\ Len(CHAIN) >= 3

\* a chain block without the two fields the handler stamps on it
Unstamped(block) ==
  [k \in DOMAIN block \ {"mining_time", "reward"} |-> block[k]]

SupportedBits == {DIFFICULTIES[d] : d \in DOMAIN DIFFICULTIES}

\* C14: for the bits of the three tiers the target is 2^(HashBits - bits),
\* strictly decreasing in the bits, and every digest a worker accepted at
\* some tier is below the target of every lower tier.
C14_TargetMonotonic ==
  /\ \A d \in SupportedBits : calculate_target(d) * 2 ^ d = 2 ^ HashBits
  /\ \A d, e \in SupportedBits :
       d < e => calculate_target(e) < calculate_target(d)
  /\ \A p \in Procs : \A w \in DOMAIN results[p] :
       (results[p][w] # Pending /\ results[p][w] # None) =>
         \A d, e \in SupportedBits :
           (pool_args[p][w].target = calculate_target(d) /\ e <= d) =>
             IntOfHex(results[p][w].hash) < calculate_target(e)

\* a worker has found a nonce at the hardest tier
C14_Witness ==
  \E p \in Procs : \E w \in DOMAIN results[p] :
    /\ results[p][w] # Pending
    /\ results[p][w] # None
    /\ pool_args[p][w].target = calculate_target(DIFFICULTIES["Hard"])

\* C15: when a nonce of the universe is accepted, mine() returns the block of
\* the smallest accepted nonce, whatever the worker count and the order in
\* which the tasks ran.
C15_SmallestNonce ==
  \A p \in Procs :
    (pc[p] = "returned" /\ Accepted(block_data[p], TargetOf(p)) # {}) =>
      /\ mined_block[p] # None
      /\ \A n \in Accepted(block_data[p], TargetOf(p)) : mined_block[p].nonce <= n

\* the accepted nonces of the sub-range of one task
AcceptedIn(arg) ==
  {n \in arg.nonce_start..(arg.nonce_end - 1) :
     IntOfHex(SHA256(to_string(DictSet(arg.block_data, "nonce", n)))) < arg.target}

\* C16: a worker evaluates the nonces of its sub-range in increasing order
\* from nonce_start and stops at the first accepted one: it returns the
\* smallest accepted nonce of its sub-range, evaluates nothing above it or
\* outside the sub-range, and returns None exactly when none is accepted.
C16_WorkerScan ==
  \A p \in Procs : \A w \in DOMAIN scan[p] :
    LET evaluated == scan[p][w].evaluated
        arg == pool_args[p][w]
        result == results[p][w]
    IN  /\ \A i \in DOMAIN evaluated :
             /\ evaluated[i] = arg.nonce_start + i - 1
             /\ evaluated[i] < arg.nonce_end
             /\ i < Len(evaluated) => evaluated[i] \notin AcceptedIn(arg)
        /\ result = Pending =>
             \A i \in DOMAIN evaluated : evaluated[i] \notin AcceptedIn(arg)
        /\ (result # Pending /\ result # None) =>
             /\ result.nonce \in AcceptedIn(arg)
             /\ \A n \in AcceptedIn(arg) : result.nonce <= n
             /\ evaluated # <<>>
             /\ evaluated[Len(evaluated)] = result.nonce
        /\ result # Pending => (result = None <=> AcceptedIn(arg) = {})
        /\ result = None => Len(evaluated) = arg.nonce_end - arg.nonce_start

\* a worker passed a rejected nonce, stopped at an accepted one and left the
\* rest of its sub-range alone
C16_Witness ==
  \E p \in Procs : \E w \in DOMAIN scan[p] :
    /\ results[p][w] # Pending
    /\ results[p][w] # None
    /\ Len(scan[p][w].evaluated) >= 2
    /\ results[p][w].nonce < pool_args[p][w].nonce_end - 1

\* C17: the template stays as submitted: each task writes its trial nonce and
\* digest into its own copy only, a copy holds no nonce or digest but the
\* task's own, and the caller's dict keeps exactly its fields and values,
\* with no nonce or hash, until and after mine() returns.
C17_TemplateImmutable ==
  \A p \in Procs :
    pool_args[p] # <<>> =>
      /\ DOMAIN block_data[p] = TemplateKeys
      /\ \A w \in DOMAIN pool_args[p] : pool_args[p][w].block_data = block_data[p]
      /\ \A w \in DOMAIN scan[p] :
           LET copy == scan[p][w].block_data
               evaluated == scan[p][w].evaluated
           IN  /\ [k \in TemplateKeys |-> copy[k]] = block_data[p]
               /\ "nonce" \in DOMAIN copy <=> evaluated # <<>>
               /\ "nonce" \in DOMAIN copy =>
                    /\ copy.nonce = evaluated[Len(evaluated)]
                    /\ copy.nonce >= pool_args[p][w].nonce_start
                    /\ copy.nonce < pool_args[p][w].nonce_end
               /\ "hash" \in DOMAIN copy =>
                    copy.hash =
                      SHA256(to_string(DictSet(block_data[p], "nonce", copy.nonce)))

\* mine() has returned a block after three tasks wrote different nonces
C17_Witness ==
  /\ pc[Main] = "returned"
  /\ mined_block[Main] # None
  /\ \E w, v \in DOMAIN scan[Main] :
       /\ "hash" \in DOMAIN scan[Main][w].block_data
       /\ "nonce" \in DOMAIN scan[Main][v].block_data
       /\ scan[Main][v].block_data.nonce # scan[Main][w].block_data.nonce

\* C18: a /mine request whose search found nothing answers 500 and, in the
\* step that ends it, leaves the chain, the reward and the recommendation as
\* they are; every step that changes the chain or the reward is taken by a
\* caller whose search returned a block.
C18_NotFoundChangesNothing ==
  [][/\ \A t \in Threads :
          (pc[t] = "returned" /\ mined_block[t] = None /\ pc'[t] # "returned") =>
            /\ CHAIN' = CHAIN
            /\ REWARD' = REWARD
            /\ difficulty_adjustment' = difficulty_adjustment
            /\ response'[t] = "500"
            /\ pc'[t] = "idle"
     /\ (CHAIN' # CHAIN \/ REWARD' # REWARD) =>
          \E p \in Procs :
            /\ mined_block[p] # None
            /\ pc[p] \in {"returned", "stamped", "appended"}
            /\ pc'[p] # pc[p]]_vars

\* a request was answered 500 while the chain holds a block at a multiple of
\* the halving interval
C18_Witness ==
  \E t \in Threads :
    /\ response[t] = "500"
    /\ pc[t] = "idle"
    /\ Len(CHAIN) = HALVING_INTERVAL

\* the /mine requests that have set the status to "mining" and not answered
InProgress == {t \in Threads : pc[t] # "idle"}

\* C19: the status is "mining" whenever a /mine request is between the start
\* of its search and its response, and "idle" whenever no request is in
\* progress (so a request that set "mining" has set it back when it is over,
\* also after an error and with overlapping requests).
C19_StatusTracksMining ==
  /\ InProgress # {} => mining_info.status = "mining"
  /\ InProgress = {} => mining_info.status = "idle"

=============================================================================
